---- MODULE Spec2Model ----
(***************************************************************************)
(* Endpoint pool and selection engine of services/proxy_rotator.py:        *)
(* ResidentialProxy.score, AdvancedProxyRotator.get_optimal_proxy,         *)
(* get_proxy_for_school_blocker, rotate_proxy_chain, health_check_proxy    *)
(* and the start_health_monitoring loop.                                   *)
(*                                                                         *)
(* Numbers.  The source computes in floats; the model computes the same    *)
(* expressions exactly, in fixed denominators:                             *)
(*   latency       in units of 1/LatScale ms, or Inf (float('inf'));       *)
(*   success_rate  in units of 1/RateScale;                                *)
(*   score         in units of 1/ScoreDen.                                 *)
(* Every endpoint is updated at most MaxCycles times (one update per       *)
(* cycle), each update divides by 10, and the scales hold MaxCycles        *)
(* decimal digits beyond the inputs, so every division below is exact.     *)
(***************************************************************************)
EXTENDS Integers, Sequences, FiniteSets, TLC

\* ------------------------------------------------------------- bounds
\* Regions of the registry (50 in the source).
NumStates == 2
\* Endpoints per region (range(5) in the source).
PerState == 2
\* Regions sampled per health-check cycle (5 of 50 in the source).
RegionsPerCycle == 1
\* Health-check cycles the monitor runs.
MaxCycles == 2
\* API calls (selections, chains, statistics) made against the rotator.
MaxCalls == 1
\* Largest chain_length passed to rotate_proxy_chain.
MaxChainLength == 2

\* ------------------------------------------------------------- numbers
RECURSIVE Pow10(_)
Pow10(n) == IF n = 0 THEN 1 ELSE 10 * Pow10(n - 1)

Max(a, b) == IF a >= b THEN a ELSE b
Min(a, b) == IF a <= b THEN a ELSE b

LatScale == Pow10(MaxCycles)
RateScale == 3000 * Pow10(MaxCycles)
ScoreDen == 150000 * LatScale

\* float('inf')
Inf == 0 - 1
IsInf(x) == x = Inf
\* a <= b for a latency a that may be Inf and a finite b
FLe(a, b) == IF IsInf(a) THEN FALSE ELSE a <= b
\* a < b, likewise
FLt(a, b) == IF IsInf(a) THEN FALSE ELSE a < b

\* ------------------------------------------------------------- ProxyHealth
EXCELLENT == 4
GOOD == 3
DEGRADED == 2
POOR == 1
DEAD == 0
ProxyHealth == {EXCELLENT, GOOD, DEGRADED, POOR, DEAD}

\* ------------------------------------------------------------- SchoolBlockerType
\* None, the four blockers with tables, and one of the six without.
NoneStr == "None"
BlockerTypes == {"iboss", "securely", "goguardian", "lanschool", "barkly"}
OptBlockerTypes == BlockerTypes \cup {NoneStr}

\* preferred_isps / avoid_isps of _calculate_blocker_score
PreferredIsps(blocker_type) ==
    CASE blocker_type = "iboss" -> {"Comcast", "AT&T", "Verizon", "Charter", "Cox"}
      [] blocker_type = "goguardian" -> {"Spectrum", "Xfinity", "Optimum", "Mediacom", "Frontier"}
      [] blocker_type = "securely" -> {"Cox", "Suddenlink", "Cable One", "WOW!", "RCN"}
      [] blocker_type = "lanschool" -> {"AT&T", "Verizon", "CenturyLink", "Windstream", "Frontier"}
      [] OTHER -> {}

AvoidIsps(blocker_type) ==
    CASE blocker_type = "iboss" -> {"Google Fiber", "CenturyLink"}
      [] blocker_type = "goguardian" -> {"Verizon Business", "AT&T Business"}
      [] blocker_type = "securely" -> {"CenturyLink", "Frontier Communications"}
      [] blocker_type = "lanschool" -> {"Comcast Business", "Charter Business"}
      [] OTHER -> {}

\* ------------------------------------------------------------- ResidentialProxy
\* The provider names of the source: the isps an endpoint is created with, and the
\* names of the tables that are none of them.
Isps ==
    {"Comcast", "AT&T", "Verizon", "Charter", "CenturyLink", "Frontier", "Cox",
     "Altice", "Mediacom", "Windstream", "Spectrum", "Xfinity", "Optimum",
     "Google Fiber", "Suddenlink", "Cable One", "WOW!", "RCN",
     "Frontier Communications", "Verizon Business", "AT&T Business",
     "Comcast Business", "Charter Business"}

\* _calculate_blocker_score with the avoid list lost
CalculateBlockerScoreNoAvoid(p, blocker_type) ==
    IF blocker_type = NoneStr THEN 5
    ELSE IF p.isp \in PreferredIsps(blocker_type) THEN 10
    ELSE 5

\* _calculate_blocker_score, in tenths (1.0 = 10, 0.5 = 5, 0.0 = 0)
CalculateBlockerScore(p, blocker_type) ==
    IF blocker_type = NoneStr THEN 5
    ELSE IF p.isp \in PreferredIsps(blocker_type) THEN 10
    ELSE IF p.isp \in AvoidIsps(blocker_type) THEN 0
    ELSE 5

\* latency_score = max(0, 1 - latency / 5000), in units of 1/(5000 * LatScale);
\* max(0, 1 - inf) = 0
LatencyScore(p) ==
    IF IsInf(p.latency) THEN 0 ELSE Max(0, 5000 * LatScale - p.latency)

\* The health term of score as a slip would write it: health.value * health_weight,
\* the 0.25 normalisation lost.
ScoreHealthUnnormalised(p, blocker_type) ==
      LatencyScore(p) * 3 * (ScoreDen \div (10 * 5000 * LatScale))
    + p.success_rate * 4 * (ScoreDen \div (10 * RateScale))
    + p.health * 2 * (ScoreDen \div 10)
    + CalculateBlockerScore(p, blocker_type) * 1 * (ScoreDen \div 100)

\* score with a term that is no function of its inputs alone: a bonus for an
\* endpoint that has been handed out.
ScoreWithRecency(p, blocker_type) ==
      LatencyScore(p) * 3 * (ScoreDen \div (10 * 5000 * LatScale))
    + p.success_rate * 4 * (ScoreDen \div (10 * RateScale))
    + p.health * 25 * 2 * (ScoreDen \div 1000)
    + CalculateBlockerScore(p, blocker_type) * 1 * (ScoreDen \div 100)
    + (IF p.last_used >= 0 THEN 1 ELSE 0)

\* score: latency_score * 0.3 + success_rate * 0.4 + health.value * 0.25 * 0.2
\*        + blocker_score * 0.1, in units of 1/ScoreDen
Score(p, blocker_type) ==
      LatencyScore(p) * 3 * (ScoreDen \div (10 * 5000 * LatScale))
    + p.success_rate * 4 * (ScoreDen \div (10 * RateScale))
    + p.health * 25 * 2 * (ScoreDen \div 1000)
    + CalculateBlockerScore(p, blocker_type) * 1 * (ScoreDen \div 100)

\* ------------------------------------------------------------- registry
\* states_cities keys, in insertion order
StateNames == SubSeq(<<"alabama", "alaska", "arizona", "arkansas">>, 1, NumStates)
States == {StateNames[i] : i \in 1..NumStates}
\* endpoints are named by their position of creation
Ids == 1..(NumStates * PerState)
\* The state field with the loop variable lost: every endpoint created for the
\* first state.
StateOfIdFirst(i) == StateNames[1]

StateOfId(i) == StateNames[((i - 1) \div PerState) + 1]

\* What _initialize_residential_proxies may draw for one endpoint: isp from isps,
\* latency from uniform(30, 400) ms, success_rate from uniform(0.88, 0.98) (in
\* thousandths), health from {EXCELLENT, GOOD}.
InitProfiles ==
    << [isp |-> "CenturyLink", latency |-> 100, success_rate |-> 900, health |-> EXCELLENT],
       [isp |-> "Comcast", latency |-> 200, success_rate |-> 915, health |-> EXCELLENT],
       [isp |-> "Frontier", latency |-> 300, success_rate |-> 900, health |-> GOOD] >>

\* The draws tried: the profiles dealt round the pool, from each starting profile.
InitDraws ==
    { [i \in Ids |-> InitProfiles[((i + k) % Len(InitProfiles)) + 1]] :
        k \in 1..Len(InitProfiles) }

VARIABLES
    proxies,            \* id -> the ResidentialProxy's fields
    proxies_by_state,   \* state -> sequence of ids
    proxy_pool,         \* sequence of ids
    session,            \* self.session is set
    mon_pc,             \* start_health_monitoring: "off", "waiting", "gathering", "cancelled"
    cycles,             \* cycles started
    tasks,              \* id -> "none", "pending", "true", "false", "raised", "cancelled"
    healthy_count,      \* the last cycle's reported healthy_count
    now,                \* the clock datetime.now() reads
    last                \* the last API call: its arguments and what it returned

vars == <<proxies, proxies_by_state, proxy_pool, session, mon_pc, cycles, tasks,
          healthy_count, now, last>>

registry == <<proxies_by_state, proxy_pool>>
monitor == <<session, mon_pc, cycles, tasks, healthy_count>>

NoCall ==
    [op |-> "none", target_state |-> NoneStr, blocker_type |-> NoneStr,
     target_latency |-> 0, outcome |-> "none", result |-> 0,
     chain_length |-> 0, states |-> <<>>, targets |-> <<>>, chain |-> <<>>,
     stats |-> <<>>]

\* __init__ and _initialize_residential_proxies
Init ==
    /\ \E f \in InitDraws :
          proxies = [i \in Ids |->
              [state |-> StateOfId(i), isp |-> f[i].isp,
               latency |-> f[i].latency * LatScale,
               success_rate |-> f[i].success_rate * (RateScale \div 1000),
               health |-> f[i].health,
               last_used |-> 0 - 1]]
    /\ proxies_by_state =
          [s \in States |->
              LET k == CHOOSE j \in 1..NumStates : StateNames[j] = s
              IN [n \in 1..PerState |-> (k - 1) * PerState + n]]
    /\ proxy_pool = [i \in Ids |-> i]
    /\ session = FALSE
    /\ mon_pc = "off"
    /\ cycles = 0
    /\ tasks = [i \in Ids |-> "none"]
    /\ healthy_count = 0
    /\ now = 0
    /\ last = NoCall

\* ------------------------------------------------------------- health checks
\* One probe of the battery: a response with status 200/204 after ms milliseconds,
\* or anything else (an exception, a timeout, another status).
Ok(ms) == [ok |-> TRUE, ms |-> ms]
Failed == [ok |-> FALSE, ms |-> 0]

\* The probe batteries the network may answer with, one probe per test_url.
Batteries ==
    { <<Failed, Failed, Failed>>,
      <<Ok(60), Failed, Failed>>,
      <<Ok(9960), Failed, Ok(9960)>>,
      <<Ok(60), Ok(60), Ok(60)>> }

RECURSIVE SuccessCount(_)
SuccessCount(battery) ==
    IF battery = <<>> THEN 0
    ELSE SuccessCount(Tail(battery)) + (IF Head(battery).ok THEN 1 ELSE 0)

RECURSIVE TotalLatency(_)
TotalLatency(battery) ==
    IF battery = <<>> THEN 0
    ELSE TotalLatency(Tail(battery)) + (IF Head(battery).ok THEN Head(battery).ms ELSE 0)

\* success_rate = success_count / len(test_urls)
RawSuccessRate(battery) == (SuccessCount(battery) * RateScale) \div Len(battery)

\* avg_latency taken over every probe of the battery, the failed ones included.
AvgLatencyAllProbes(battery) ==
    IF SuccessCount(battery) = 0 THEN Inf
    ELSE (TotalLatency(battery) * LatScale) \div Len(battery)

\* avg_latency = total_latency / success_count if success_count else float('inf')
AvgLatency(battery) ==
    IF SuccessCount(battery) = 0 THEN Inf
    ELSE (TotalLatency(battery) * LatScale) \div SuccessCount(battery)

\* The blend with the weight of the old value lost: old + new * 0.3.
SmoothUndamped(old, new) ==
    IF IsInf(old) \/ IsInf(new) THEN Inf ELSE old + (new * 3) \div 10

\* old * 0.7 + new * 0.3; inf * 0.7 + x and x + inf * 0.3 are inf
Smooth(old, new) ==
    IF IsInf(old) \/ IsInf(new) THEN Inf ELSE (old * 7 + new * 3) \div 10

\* The ladder with DEAD as its last rung.
HealthStatusDeadLast(success_rate, latency) ==
    IF success_rate * 10 >= 9 * RateScale /\ FLt(latency, 300 * LatScale) THEN EXCELLENT
    ELSE IF success_rate * 10 >= 7 * RateScale /\ FLt(latency, 600 * LatScale) THEN GOOD
    ELSE IF success_rate * 10 >= 5 * RateScale THEN DEGRADED
    ELSE DEAD

\* The health ladder of health_check_proxy: success_rate is the battery's raw rate,
\* latency the proxy's smoothed latency.
HealthStatus(success_rate, latency) ==
    IF success_rate * 10 >= 9 * RateScale /\ FLt(latency, 300 * LatScale) THEN EXCELLENT
    ELSE IF success_rate * 10 >= 7 * RateScale /\ FLt(latency, 600 * LatScale) THEN GOOD
    ELSE IF success_rate * 10 >= 5 * RateScale THEN DEGRADED
    ELSE POOR

\* The proxy as it would be seen if the task were suspended after line 353: the
\* latency written, success_rate and health not yet.
ProbedLatencyOnly(p, battery) ==
    [p EXCEPT !.latency = Smooth(p.latency, AvgLatency(battery))]

\* The proxy after health_check_proxy has run the battery.
Probed(p, battery) ==
    LET latency == Smooth(p.latency, AvgLatency(battery))
    IN [p EXCEPT !.latency = latency,
                 !.success_rate = Smooth(p.success_rate, RawSuccessRate(battery)),
                 !.health = HealthStatus(RawSuccessRate(battery), latency)]

\* initialize_proxy_system: create_task(start_health_monitoring())
InitializeProxySystem ==
    /\ mon_pc = "off"
    /\ mon_pc' = "waiting"
    /\ last' = NoCall
    /\ UNCHANGED <<proxies, registry, session, cycles, tasks, healthy_count, now>>

\* the sample as it would be with every state checked in every cycle
SampleSizeEveryState == Cardinality(DOMAIN proxies_by_state)

\* min(5, len(states))
SampleSize == Min(RegionsPerCycle, Cardinality(DOMAIN proxies_by_state))

\* start_health_monitoring, from the top of the loop to the gather: sample the
\* states, one health_check_proxy task per proxy of a sampled state.
StartCycle ==
    /\ mon_pc = "waiting"
    /\ cycles < MaxCycles
    /\ \E states_to_check \in SUBSET (DOMAIN proxies_by_state) :
          /\ Cardinality(states_to_check) = SampleSize
          /\ tasks' = [i \in Ids |->
                IF \E s \in states_to_check :
                      \E n \in DOMAIN proxies_by_state[s] : proxies_by_state[s][n] = i
                THEN "pending" ELSE "none"]
    /\ mon_pc' = "gathering"
    /\ cycles' = cycles + 1
    /\ last' = NoCall
    /\ UNCHANGED <<proxies, registry, session, healthy_count, now>>

\* health_check_proxy as it would run without the try/except round a probe and
\* without return_exceptions: a battery with a failed probe raises out of the task
\* and out of the gather, and the cycle is over for every proxy.
HealthCheckProxyRaising(i, battery) ==
    /\ mon_pc = "gathering"
    /\ tasks[i] = "pending"
    /\ session' = TRUE
    /\ IF SuccessCount(battery) = Len(battery)
       THEN /\ proxies' = [proxies EXCEPT ![i] = Probed(proxies[i], battery)]
            /\ tasks' = [tasks EXCEPT ![i] = "true"]
            /\ mon_pc' = mon_pc
       ELSE /\ proxies' = proxies
            /\ tasks' = [j \in Ids |-> "none"]
            /\ mon_pc' = "waiting"
    /\ last' = NoCall
    /\ UNCHANGED <<registry, cycles, healthy_count, now>>

\* health_check_proxy as it would run with success_count and total_latency kept
\* on the rotator instead of in the task: the battery of one task is blended into
\* every proxy whose task is still running.
HealthCheckProxySharedCounters(i, battery) ==
    /\ mon_pc = "gathering"
    /\ tasks[i] = "pending"
    /\ session' = TRUE
    /\ proxies' = [j \in Ids |->
          IF tasks[j] = "pending" THEN Probed(proxies[j], battery) ELSE proxies[j]]
    /\ tasks' = [tasks EXCEPT ![i] =
          IF RawSuccessRate(battery) * 10 >= 5 * RateScale THEN "true" ELSE "false"]
    /\ last' = NoCall
    /\ UNCHANGED <<registry, mon_pc, cycles, healthy_count, now>>

\* health_check_proxy(proxy): the task of one proxy runs its battery and, with no
\* await in between, updates the proxy and returns success_rate >= 0.5.
HealthCheckProxy(i, battery) ==
    /\ mon_pc = "gathering"
    /\ tasks[i] = "pending"
    /\ session' = TRUE
    /\ proxies' = [proxies EXCEPT ![i] = Probed(proxies[i], battery)]
    /\ tasks' = [tasks EXCEPT ![i] =
          IF RawSuccessRate(battery) * 10 >= 5 * RateScale THEN "true" ELSE "false"]
    /\ last' = NoCall
    /\ UNCHANGED <<registry, mon_pc, cycles, healthy_count, now>>

\* health_check_proxy(proxy) raising: aiohttp.ClientSession() of line 326 is outside
\* every try, so a task that finds no session can end in an exception before its
\* first probe; return_exceptions=True makes the exception the task's result.  The
\* tasks run line 325 in the order of proxies_to_check, so the tasks that raise are
\* the first of the list: whole states, then the head of one state's list.
HealthCheckProxyRaises(i) ==
    /\ mon_pc = "gathering"
    /\ tasks[i] = "pending"
    /\ session = FALSE
    /\ LET state == proxies[i].state
           ahead(t) == proxies_by_state[t]
       IN /\ \A n, m \in DOMAIN ahead(state) :
                (ahead(state)[m] = i /\ n < m) => tasks[ahead(state)[n]] = "raised"
          /\ \A t \in DOMAIN proxies_by_state \ {state} :
                (\E n \in DOMAIN ahead(t) : tasks[ahead(t)[n]] = "raised")
                   => \A n \in DOMAIN ahead(t) : tasks[ahead(t)[n]] = "raised"
    /\ tasks' = [tasks EXCEPT ![i] = "raised"]
    /\ last' = NoCall
    /\ UNCHANGED <<proxies, registry, session, mon_pc, cycles, healthy_count, now>>

\* start_health_monitoring as it would run without the try/except of lines 371 and
\* 388: an exception in the body of a cycle ends the monitor.
CycleRaisesUncaught ==
    /\ \/ mon_pc = "waiting" /\ cycles < MaxCycles /\ cycles' = cycles + 1
       \/ mon_pc = "gathering" /\ (\A i \in Ids : tasks[i] # "pending") /\ cycles' = cycles
    /\ mon_pc' = "off"
    /\ tasks' = [i \in Ids |-> "none"]
    /\ last' = NoCall
    /\ UNCHANGED <<proxies, registry, session, healthy_count, now>>

\* start_health_monitoring, a cycle whose body raises: an Exception out of the
\* statements before the gather (lines 372-382) or after it (lines 385-386) is
\* caught at line 388 and logged; nothing is reported and the loop goes on to the
\* sleep.  The gather itself does not raise, it returns the tasks' exceptions.
CycleRaises ==
    /\ \/ mon_pc = "waiting" /\ cycles < MaxCycles /\ cycles' = cycles + 1
       \/ mon_pc = "gathering" /\ (\A i \in Ids : tasks[i] # "pending") /\ cycles' = cycles
    /\ mon_pc' = "waiting"
    /\ tasks' = [i \in Ids |-> "none"]
    /\ last' = NoCall
    /\ UNCHANGED <<proxies, registry, session, healthy_count, now>>

\* the count as it would be with "if r" for "if r is True": an exception among the
\* results is truthy and is counted as healthy.
EndCycleCountsTruthy ==
    /\ mon_pc = "gathering"
    /\ \A i \in Ids : tasks[i] # "pending"
    /\ healthy_count' = Cardinality({i \in Ids : tasks[i] \in {"true", "raised"}})
    /\ tasks' = [i \in Ids |-> "none"]
    /\ mon_pc' = "waiting"
    /\ last' = NoCall
    /\ UNCHANGED <<proxies, registry, session, cycles, now>>

\* start_health_monitoring stopped.  The loop has no stop flag and
\* initialize_proxy_system drops the handle of the task it creates, so the one stop
\* there is is the cancellation of the task when the event loop is shut down.
\* CancelledError is delivered at the await of line 383 or 391 and is not an
\* Exception, so line 388 does not catch it and the loop is left; a gather that is
\* cancelled cancels its tasks, and in each the error passes the except of line 346
\* and ends the task before the update of lines 353-364.
CancelMonitor ==
    /\ mon_pc \in {"waiting", "gathering"}
    /\ mon_pc' = "cancelled"
    /\ tasks' = [i \in Ids |-> IF tasks[i] = "pending" THEN "cancelled" ELSE tasks[i]]
    /\ last' = NoCall
    /\ UNCHANGED <<proxies, registry, session, cycles, healthy_count, now>>

\* start_health_monitoring, from the gather's return to the sleep:
\* healthy_count = sum(1 for r in results if r is True)
EndCycle ==
    /\ mon_pc = "gathering"
    /\ \A i \in Ids : tasks[i] # "pending"
    /\ healthy_count' = Cardinality({i \in Ids : tasks[i] = "true"})
    /\ tasks' = [i \in Ids |-> "none"]
    /\ mon_pc' = "waiting"
    /\ last' = NoCall
    /\ UNCHANGED <<proxies, registry, session, cycles, now>>


\* ------------------------------------------------------------- selection
\* The target_state arguments tried: None, an unknown state, and the states of the
\* registry, one of them in capitals.
Spellings == <<"alabama", "ALASKA", "arizona", "arkansas">>
TargetStates == {NoneStr, "atlantis"} \cup {Spellings[i] : i \in 1..NumStates}
\* str.lower, on these spellings
Lower(target_state) == IF target_state = "ALASKA" THEN "alaska" ELSE target_state

\* target_latency: float = 200.0
DefaultTargetLatency == 200

\* get_proxy_for_school_blocker with the blocker's own threshold lost: the default
\* for every blocker.
BlockerLatencyDefault(blocker_type) == 200

\* blocker_latencies.get(blocker_type, 200.0), in ms
BlockerLatency(blocker_type) ==
    CASE blocker_type = "iboss" -> 150
      [] blocker_type = "goguardian" -> 200
      [] blocker_type = "securely" -> 180
      [] blocker_type = "lanschool" -> 250
      [] OTHER -> 200

\* candidate_proxies with the target_state branch lost: always the whole pool.
CandidateProxiesWholePool(target_state) == proxy_pool

\* candidate_proxies
CandidateProxies(target_state) ==
    IF target_state # NoneStr /\ Lower(target_state) \in DOMAIN proxies_by_state
    THEN proxies_by_state[Lower(target_state)]
    ELSE proxy_pool

\* The filter with its health test lost.
FilterViableAnyHealth(px, candidates, target_latency) ==
    LET Test(i) == FLe(px[i].latency, target_latency * LatScale)
    IN SelectSeq(candidates, Test)

\* [p for p in candidates if p.health.value >= DEGRADED.value and p.latency <= target_latency]
FilterViable(px, candidates, target_latency) ==
    LET Test(i) == /\ px[i].health >= DEGRADED
                   /\ FLe(px[i].latency, target_latency * LatScale)
    IN SelectSeq(candidates, Test)

\* The fallback with its health test lost: any proxy of the pool.
FallbackAnyProxy(px) == proxy_pool

\* [p for p in self.proxy_pool if p.health.value >= DEGRADED.value]
FallbackProxies(px) ==
    LET Test(i) == px[i].health >= DEGRADED
    IN SelectSeq(proxy_pool, Test)

\* viable_proxies, after the fallback
ViableProxies(px, target_state, target_latency) ==
    LET viable == FilterViable(px, CandidateProxies(target_state), target_latency)
    IN IF viable = <<>> THEN FallbackProxies(px) ELSE viable

\* A sort that is not stable: an element goes before the elements of equal score.
InsertByScoreUnstable(px, sorted, i, blocker_type) ==
    LET k == Cardinality({j \in 1..Len(sorted) :
                 Score(px[sorted[j]], blocker_type) > Score(px[i], blocker_type)})
    IN SubSeq(sorted, 1, k) \o <<i>> \o SubSeq(sorted, k + 1, Len(sorted))

\* The sort with reverse=True lost: ascending scores.
InsertByScoreAscending(px, sorted, i, blocker_type) ==
    LET k == Cardinality({j \in 1..Len(sorted) :
                 Score(px[sorted[j]], blocker_type) <= Score(px[i], blocker_type)})
    IN SubSeq(sorted, 1, k) \o <<i>> \o SubSeq(sorted, k + 1, Len(sorted))

\* The sort with the whole ResidentialProxy in the key after the score: among equal
\* scores the proxy used longest ago goes first.
InsertByScoreLeastRecent(px, sorted, i, blocker_type) ==
    LET k == Cardinality({j \in 1..Len(sorted) :
                 \/ Score(px[sorted[j]], blocker_type) > Score(px[i], blocker_type)
                 \/ /\ Score(px[sorted[j]], blocker_type) = Score(px[i], blocker_type)
                    /\ px[sorted[j]].last_used <= px[i].last_used})
    IN SubSeq(sorted, 1, k) \o <<i>> \o SubSeq(sorted, k + 1, Len(sorted))

\* list.sort(reverse=True, key=score) is stable: an element goes after every element
\* whose score is at least its own.
InsertByScore(px, sorted, i, blocker_type) ==
    LET k == Cardinality({j \in 1..Len(sorted) :
                 Score(px[sorted[j]], blocker_type) >= Score(px[i], blocker_type)})
    IN SubSeq(sorted, 1, k) \o <<i>> \o SubSeq(sorted, k + 1, Len(sorted))

RECURSIVE SortByScore(_, _, _)
SortByScore(px, viable, blocker_type) ==
    IF viable = <<>> THEN <<>>
    ELSE InsertByScore(px, SortByScore(px, SubSeq(viable, 1, Len(viable) - 1), blocker_type),
                       viable[Len(viable)], blocker_type)

\* last_used written on every proxy instead of the best one.
MarkAllUsed(px, best, t) == [i \in DOMAIN px |-> [px[i] EXCEPT !.last_used = t]]

\* best_proxy.last_used = datetime.now()
MarkUsed(px, best, t) == [px EXCEPT ![best].last_used = t]

\* get_optimal_proxy on the pool px at time t: the proxy returned and the pool it
\* leaves, or ok = FALSE for Exception("No viable proxies available").
GetOptimalProxy(px, target_state, blocker_type, target_latency, t) ==
    LET viable == ViableProxies(px, target_state, target_latency)
    IN IF viable = <<>>
       THEN [ok |-> FALSE, best |-> 0, proxies |-> px]
       ELSE LET best == SortByScore(px, viable, blocker_type)[1]
            IN [ok |-> TRUE, best |-> best, proxies |-> MarkUsed(px, best, t)]

Selected(op, target_state, blocker_type, target_latency) ==
    LET r == GetOptimalProxy(proxies, target_state, blocker_type, target_latency, now')
    IN /\ proxies' = r.proxies
       /\ last' = [NoCall EXCEPT !.op = op, !.target_state = target_state,
                                 !.blocker_type = blocker_type,
                                 !.target_latency = target_latency,
                                 !.outcome = IF r.ok THEN "ok" ELSE "error",
                                 !.result = r.best]

\* a call of get_optimal_proxy(target_state, blocker_type), target_latency defaulted
GetOptimalProxyCall(target_state, blocker_type) ==
    /\ now < MaxCalls
    /\ now' = now + 1
    /\ Selected("get_optimal_proxy", target_state, blocker_type, DefaultTargetLatency)
    /\ UNCHANGED <<registry, monitor>>

\* a call of get_proxy_for_school_blocker(blocker_type, target_state)
GetProxyForSchoolBlocker(blocker_type, target_state) ==
    /\ now < MaxCalls
    /\ now' = now + 1
    /\ Selected("get_proxy_for_school_blocker", target_state, blocker_type,
                BlockerLatency(blocker_type))
    /\ UNCHANGED <<registry, monitor>>

\* ------------------------------------------------------------- chains
Range(seq) == {seq[i] : i \in 1..Len(seq)}

\* The states arguments tried: None, and lists of the first regions of the registry
\* that leave at least one region out.
StatesArgs == {SubSeq(StateNames, 1, k) : k \in 0..(NumStates - 1)}

\* available_states of one hop
AvailableStates(states, used_states) ==
    LET listed == IF states = <<>> THEN DOMAIN proxies_by_state ELSE Range(states)
        available == {s \in listed : s \notin used_states}
    IN IF available = {} THEN DOMAIN proxies_by_state ELSE available

\* The loop as it would run if it stopped when every listed state is used, instead
\* of falling back to all the states.
RECURSIVE ChainRunsNoRepeat(_, _, _, _, _, _, _, _)
ChainRunsNoRepeat(px, chain_length, states, blocker_type, used_states, targets, chain, t) ==
    LET listed == IF states = <<>> THEN DOMAIN proxies_by_state ELSE Range(states)
        available == {s \in listed : s \notin used_states}
    IN IF Len(chain) = chain_length \/ available = {}
       THEN {[outcome |-> "ok", targets |-> targets, chain |-> chain, proxies |-> px]}
       ELSE UNION { LET r == GetOptimalProxy(px, target_state, blocker_type,
                                              DefaultTargetLatency, t)
                    IN IF r.ok
                       THEN ChainRunsNoRepeat(r.proxies, chain_length, states, blocker_type,
                                      used_states \cup {target_state},
                                      Append(targets, target_state), Append(chain, r.best), t)
                       ELSE {[outcome |-> "error", targets |-> Append(targets, target_state),
                              chain |-> chain, proxies |-> px]}
                  : target_state \in available }

\* The runs of rotate_proxy_chain's loop from one hop on: every random.choice of
\* target_state; a hop whose get_optimal_proxy raises ends the call.
RECURSIVE ChainRuns(_, _, _, _, _, _, _, _)
ChainRuns(px, chain_length, states, blocker_type, used_states, targets, chain, t) ==
    IF Len(chain) = chain_length
    THEN {[outcome |-> "ok", targets |-> targets, chain |-> chain, proxies |-> px]}
    ELSE UNION { LET r == GetOptimalProxy(px, target_state, blocker_type,
                                           DefaultTargetLatency, t)
                 IN IF r.ok
                    THEN ChainRuns(r.proxies, chain_length, states, blocker_type,
                                   used_states \cup {target_state},
                                   Append(targets, target_state), Append(chain, r.best), t)
                    ELSE {[outcome |-> "error", targets |-> Append(targets, target_state),
                           chain |-> chain, proxies |-> px]}
               : target_state \in AvailableStates(states, used_states) }

\* a call of rotate_proxy_chain(chain_length, states, blocker_type)
RotateProxyChain(chain_length, states, blocker_type) ==
    /\ now < MaxCalls
    /\ now' = now + 1
    /\ \E run \in ChainRuns(proxies, chain_length, states, blocker_type, {}, <<>>, <<>>, now') :
          /\ proxies' = run.proxies
          /\ last' = [NoCall EXCEPT !.op = "rotate_proxy_chain",
                                    !.blocker_type = blocker_type,
                                    !.target_latency = DefaultTargetLatency,
                                    !.outcome = run.outcome,
                                    !.chain_length = chain_length,
                                    !.states = states,
                                    !.targets = run.targets,
                                    !.chain = run.chain]
    /\ UNCHANGED <<registry, monitor>>

\* ------------------------------------------------------------- statistics
RECURSIVE SumScores(_, _, _)
\* sum(blocker_scores), in units of 1/ScoreDen
SumScores(px, ids, blocker_type) ==
    IF ids = <<>> THEN 0
    ELSE Score(px[Head(ids)], blocker_type) + SumScores(px, Tail(ids), blocker_type)

RECURSIVE SumLatencies(_, _)
\* sum(p.latency for p in proxies); a sum with an inf in it is inf
SumLatencies(px, ids) ==
    IF ids = <<>> THEN 0
    ELSE LET rest == SumLatencies(px, Tail(ids))
         IN IF IsInf(px[Head(ids)].latency) \/ IsInf(rest) THEN Inf
            ELSE px[Head(ids)].latency + rest

\* stats[state] with healthy_proxies counting the proxies above DEGRADED only and
\* the mean taken over those.
StateStatsHealthyOnly(px, ids, blocker_type) ==
    LET Test(i) == px[i].health > DEGRADED
        healthy == SelectSeq(ids, Test)
        sum_scores == SumScores(px, healthy, blocker_type)
    IN [proxy_count |-> Len(ids),
        healthy_proxies |-> Len(healthy),
        avg_blocker_score |-> sum_scores,
        avg_latency |-> SumLatencies(px, ids),
        recommendation |->
            IF sum_scores > 8 * (ScoreDen \div 10) * Len(ids) THEN "EXCELLENT"
            ELSE IF sum_scores > 6 * (ScoreDen \div 10) * Len(ids) THEN "GOOD"
            ELSE "AVOID"]

\* stats[state] of get_blocker_performance_stats.  The averages are kept as the sums
\* they divide: avg_blocker_score in units of 1/(proxy_count * ScoreDen),
\* avg_latency in units of 1/(proxy_count * LatScale) ms.
StateStats(px, ids, blocker_type) ==
    LET sum_scores == SumScores(px, ids, blocker_type)
    IN [proxy_count |-> Len(ids),
        healthy_proxies |-> Cardinality({n \in 1..Len(ids) : px[ids[n]].health >= DEGRADED}),
        avg_blocker_score |-> sum_scores,
        avg_latency |-> SumLatencies(px, ids),
        recommendation |->
            IF sum_scores > 8 * (ScoreDen \div 10) * Len(ids) THEN "EXCELLENT"
            ELSE IF sum_scores > 6 * (ScoreDen \div 10) * Len(ids) THEN "GOOD"
            ELSE "AVOID"]

\* a call of get_blocker_performance_stats(blocker_type): the dict returned, one
\* entry per state with proxies; nothing is written
GetBlockerPerformanceStats(blocker_type) ==
    /\ now < MaxCalls
    /\ now' = now + 1
    /\ last' = [NoCall EXCEPT !.op = "get_blocker_performance_stats",
                              !.blocker_type = blocker_type,
                              !.outcome = "ok",
                              !.stats = [s \in {t \in DOMAIN proxies_by_state :
                                                  proxies_by_state[t] # <<>>} |->
                                           StateStats(proxies, proxies_by_state[s],
                                                      blocker_type)]]
    /\ UNCHANGED <<proxies, registry, monitor>>

\* ------------------------------------------------------------- specification
Next ==
    \/ InitializeProxySystem
    \/ StartCycle
    \/ \E i \in Ids : \E battery \in Batteries : HealthCheckProxy(i, battery)
    \/ EndCycle
    \/ \E target_state \in TargetStates : \E blocker_type \in OptBlockerTypes :
          GetOptimalProxyCall(target_state, blocker_type)
    \/ \E blocker_type \in BlockerTypes : \E target_state \in TargetStates :
          GetProxyForSchoolBlocker(blocker_type, target_state)
    \/ \E chain_length \in 1..MaxChainLength : \E states \in StatesArgs :
          \E blocker_type \in OptBlockerTypes :
             RotateProxyChain(chain_length, states, blocker_type)
    \/ \E blocker_type \in BlockerTypes : GetBlockerPerformanceStats(blocker_type)

Spec == Init /\ [][Next]_vars

\* The monitor task alone, as the event loop schedules it: a health_check_proxy
\* task that is ready runs (each probe ends within its 10 s timeout), and the
\* gather returns once every task has.
MonitorNext ==
    \/ InitializeProxySystem
    \/ StartCycle
    \/ \E i \in Ids : \E battery \in Batteries : HealthCheckProxy(i, battery)
    \/ EndCycle

MonitorSpec ==
    /\ Init
    /\ [][MonitorNext]_vars
    /\ \A i \in Ids : WF_vars(\E battery \in Batteries : HealthCheckProxy(i, battery))
    /\ WF_vars(EndCycle)

\* The monitor task with the exceptions its code provides for: a task of the
\* gather may raise and the body of a cycle may raise.  The sleep of line 391
\* returns after health_check_interval and the loop has no exit, so a cycle that
\* can start does.
FaultNext ==
    \/ InitializeProxySystem
    \/ StartCycle
    \/ \E i \in Ids : \E battery \in Batteries : HealthCheckProxy(i, battery)
    \/ \E i \in Ids : HealthCheckProxyRaises(i)
    \/ EndCycle
    \/ CycleRaises

FaultSpec ==
    /\ Init
    /\ [][FaultNext]_vars
    /\ \A i \in Ids :
          WF_vars((\E battery \in Batteries : HealthCheckProxy(i, battery))
                     \/ HealthCheckProxyRaises(i))
    /\ WF_vars(EndCycle \/ CycleRaises)
    /\ WF_vars(StartCycle \/ CycleRaises)

\* The monitor task with its shutdown: the task may be cancelled at any await.
ShutdownNext ==
    \/ InitializeProxySystem
    \/ StartCycle
    \/ \E i \in Ids : \E battery \in Batteries : HealthCheckProxy(i, battery)
    \/ EndCycle
    \/ CancelMonitor

ShutdownSpec ==
    /\ Init
    /\ [][ShutdownNext]_vars
    /\ \A i \in Ids : WF_vars(\E battery \in Batteries : HealthCheckProxy(i, battery))
    /\ WF_vars(EndCycle)

\* ------------------------------------------------------------- claims: vocabulary
\* The calls that are selectBest
SelectOps == {"get_optimal_proxy", "get_proxy_for_school_blocker"}
SelectDone == last.op \in SelectOps
SelectReturned == SelectDone /\ last.outcome = "ok"
ChainDone == last.op = "rotate_proxy_chain"

\* the region hint names a region of the registry
NamesRegion(target_state) == target_state # NoneStr /\ Lower(target_state) \in States
\* the candidate set of a hint: the region's endpoints, or all of them
Bucket(target_state) ==
    IF NamesRegion(target_state)
    THEN {i \in Ids : proxies[i].state = Lower(target_state)}
    ELSE Ids
Healthy(i) == proxies[i].health >= DEGRADED
\* latency_ms <= ceiling
Within(i, ceiling) == ~IsInf(proxies[i].latency) /\ proxies[i].latency <= ceiling * LatScale
\* the candidates that pass the viability filter of the last call
Passing == {i \in Bucket(last.target_state) : Healthy(i) /\ Within(i, last.target_latency)}
\* the surviving set of the last call: the filtered candidates, or else every
\* endpoint of the pool with health >= DEGRADED
Surviving == IF Passing # {} THEN Passing ELSE {i \in Ids : Healthy(i)}
ScoreOf(i) == Score(proxies[i], last.blocker_type)
TopScored == {i \in Surviving : \A j \in Surviving : ScoreOf(i) >= ScoreOf(j)}
\* latency a <= latency b, Inf the largest
LatLe(a, b) == IsInf(b) \/ (~IsInf(a) /\ a <= b)

\* ------------------------------------------------------------- claims
\* C1: selectBest never returns an endpoint with health below DEGRADED when the
\* candidate set holds an endpoint with health >= DEGRADED.
C1_NeverBelowDegraded ==
    (SelectReturned /\ \E i \in Bucket(last.target_state) : Healthy(i))
        => proxies[last.result].health >= DEGRADED

\* C1 witness: a selection returned from a candidate set that holds both an endpoint
\* below DEGRADED and one at or above it.
C1_Witness ==
    /\ SelectReturned
    /\ \E i \in Bucket(last.target_state) : ~Healthy(i)
    /\ \E i \in Bucket(last.target_state) : Healthy(i)

\* C2 as stated: with a hint that names a region holding an endpoint with
\* health >= DEGRADED, the endpoint returned belongs to that region.
C2_Original ==
    (/\ SelectReturned
     /\ NamesRegion(last.target_state)
     /\ \E i \in Bucket(last.target_state) : Healthy(i))
        => proxies[last.result].state = Lower(last.target_state)

\* C2 amended: the endpoint returned belongs to the hinted region when the region
\* holds an endpoint with health >= DEGRADED and latency within the ceiling; when
\* none passes the ceiling the fallback ranges over the whole pool: the endpoint
\* returned scores at least as high as every endpoint of the pool with
\* health >= DEGRADED.
C2_Amended ==
    (SelectReturned /\ NamesRegion(last.target_state))
        => /\ Passing # {} => proxies[last.result].state = Lower(last.target_state)
           /\ Passing = {} =>
                 /\ Healthy(last.result)
                 /\ \A j \in Ids : Healthy(j) => ScoreOf(last.result) >= ScoreOf(j)

\* C2 witness: a hinted selection stayed in its region although an endpoint of
\* another region scores higher.
C2_Witness ==
    /\ SelectReturned
    /\ NamesRegion(last.target_state)
    /\ Passing # {}
    /\ \E j \in Ids \ Bucket(last.target_state) :
          Healthy(j) /\ ScoreOf(j) > ScoreOf(last.result)

\* C3: selectBest fails exactly when no endpoint of the pool has health >= DEGRADED;
\* a failed call returns no endpoint and leaves every endpoint as it was.
C3_FailsExactly ==
    /\ [](SelectDone =>
            /\ last.outcome = "error" <=> \A i \in Ids : ~Healthy(i)
            /\ last.outcome = "error" => last.result \notin Ids)
    /\ [][(last'.op \in SelectOps /\ last'.outcome = "error") => proxies' = proxies]_vars

\* C3 witness: a selection failed.
C3_Witness == SelectDone /\ last.outcome = "error"

\* C4 as stated: among the surviving candidates of maximal score the one with the
\* lowest latency is returned, and among those of equal latency the first created.
C4_Original ==
    SelectReturned =>
        /\ last.result \in TopScored
        /\ \A j \in TopScored :
              /\ LatLe(proxies[last.result].latency, proxies[j].latency)
              /\ proxies[j].latency = proxies[last.result].latency => last.result <= j

\* C4 amended: among the surviving candidates of maximal score the first in
\* registry insertion order is returned, whatever its latency.
C4_Amended ==
    SelectReturned =>
        /\ last.result \in TopScored
        /\ \A j \in TopScored : last.result <= j

\* C4 witness: a selection returned the first of several top-scored candidates, one
\* of which has a lower latency.
C4_Witness ==
    /\ SelectReturned
    /\ \E j \in TopScored :
          j # last.result /\ ~LatLe(proxies[last.result].latency, proxies[j].latency)

\* C5: the endpoint returned scores, under the call's policy tag, at least as high
\* as every endpoint of the surviving set.
C5_MaximalScore ==
    SelectReturned => \A j \in Surviving : ScoreOf(last.result) >= ScoreOf(j)

\* C5 witness: a selection returned from a surviving set of differing scores.
C5_Witness ==
    /\ SelectReturned
    /\ \E j \in Surviving : ScoreOf(j) < ScoreOf(last.result)

\* The ceilings as the claim lists them, in ms.
ClaimedCeiling(blocker_type) ==
    IF blocker_type = "iboss" THEN 150
    ELSE IF blocker_type = "securely" THEN 180
    ELSE IF blocker_type = "goguardian" THEN 200
    ELSE IF blocker_type = "lanschool" THEN 250
    ELSE 200

\* the calls whose ceiling the claim gives: a tagged selection through
\* get_proxy_for_school_blocker, an untagged one through get_optimal_proxy
CeilingClaimed ==
    \/ last.op = "get_proxy_for_school_blocker"
    \/ last.op = "get_optimal_proxy" /\ last.blocker_type = NoneStr

C7_OnlyLastUsed ==
    [][(last'.op \in SelectOps /\ last'.outcome = "ok") =>
          /\ proxies' = [proxies EXCEPT ![last'.result].last_used = now']
          /\ proxies[last'.result].last_used # now'
          /\ proxies_by_state' = proxies_by_state
          /\ proxy_pool' = proxy_pool]_vars

\* C7 witness: a selection returned; the endpoint returned carries the time of the
\* call and no other endpoint does.
C7_Witness ==
    /\ SelectReturned
    /\ proxies[last.result].last_used = now
    /\ \A j \in Ids \ {last.result} : proxies[j].last_used # now

\* the candidate regions of the last chain
ChainRegions == IF last.states = <<>> THEN States ELSE Range(last.states)
ChainReturned == ChainDone /\ last.outcome = "ok"

\* C8 as stated: a chain of no more hops than candidate regions has no two hops in
\* the same region, the region of a hop being that of the endpoint returned.
C8_Original ==
    (ChainReturned /\ last.chain_length <= Cardinality(ChainRegions))
        => \A a, b \in 1..Len(last.chain) :
              a # b => proxies[last.chain[a]].state # proxies[last.chain[b]].state

\* C9: rotate_proxy_chain returns exactly chain_length hops whenever the pool holds
\* an endpoint with health >= DEGRADED, also when chain_length exceeds the number
\* of candidate regions.
C9_ExactlyNHops ==
    (ChainDone /\ \E i \in Ids : Healthy(i))
        => last.outcome = "ok" /\ Len(last.chain) = last.chain_length

\* C9 witness: a chain longer than its candidate regions was returned, a target
\* state repeating.
C9_Witness ==
    /\ ChainReturned
    /\ last.chain_length > Cardinality(ChainRegions)
    /\ Len(last.chain) = last.chain_length
    /\ \E a, b \in 1..Len(last.targets) : a # b /\ last.targets[a] = last.targets[b]

\* 0.30 * max(0, 1 - latency_ms / 5000) + 0.40 * success_rate
\*   + 0.20 * (health ordinal / 4) + 0.10 * providerScore, in units of 1/ScoreDen
ClaimedScore(p, blocker_type) ==
    LET latencyScore == IF IsInf(p.latency) \/ p.latency >= 5000 * LatScale
                        THEN 0 ELSE 5000 * LatScale - p.latency
    IN   3 * latencyScore * (ScoreDen \div (10 * 5000 * LatScale))
       + 4 * p.success_rate * (ScoreDen \div (10 * RateScale))
       + 2 * p.health * (ScoreDen \div (10 * EXCELLENT))
       + CalculateBlockerScore(p, blocker_type) * (ScoreDen \div (10 * 10))

\* C10: for every endpoint and every policy tag, score is the weighted sum of the
\* claim and lies in [0, 1].  (score reads latency, success_rate, health and isp,
\* which no API call writes: every endpoint state is met in a state where no call
\* has just returned, and the formula is stated there.)
C10_ScoreFormula ==
    last.op = "none" =>
        \A i \in Ids : \A blocker_type \in OptBlockerTypes :
            /\ Score(proxies[i], blocker_type) = ClaimedScore(proxies[i], blocker_type)
            /\ Score(proxies[i], blocker_type) >= 0
            /\ Score(proxies[i], blocker_type) <= ScoreDen

\* C10 witness: probe cycles have left one endpoint with a finite latency above
\* 5000 ms and another with the latency of a battery without a success.
C10_Witness ==
    /\ last.op = "none"
    /\ \E i \in Ids : ~IsInf(proxies[i].latency) /\ proxies[i].latency > 5000 * LatScale
    /\ \E i \in Ids : IsInf(proxies[i].latency)

\* ------------------------------------------------------------- claims: score
StatsDone == last.op = "get_blocker_performance_stats"
\* the calls that evaluate score
ScoringOps == SelectOps \cup {"rotate_proxy_chain", "get_blocker_performance_stats"}
\* the fields score reads
SameInputs(p, q) ==
    /\ p.latency = q.latency
    /\ p.success_rate = q.success_rate
    /\ p.health = q.health
    /\ p.isp = q.isp

\* C11: score is pure: endpoints with the same field values score the same under
\* the same policy tag, whatever else differs and whenever it is evaluated; a call
\* that only evaluates score changes no endpoint, and no call that evaluates score
\* changes a field score reads, so a second evaluation returns the same value.
C11_ScorePure ==
    /\ [](StatsDone =>
            \A i, j \in Ids :
               SameInputs(proxies[i], proxies[j]) =>
                  Score(proxies[i], last.blocker_type) = Score(proxies[j], last.blocker_type))
    /\ [][last'.op = "get_blocker_performance_stats" => proxies' = proxies]_vars
    /\ [][last'.op \in ScoringOps =>
            \A i \in Ids :
               /\ SameInputs(proxies[i], proxies'[i])
               /\ Score(proxies'[i], last'.blocker_type) = Score(proxies[i], last'.blocker_type)]_vars

\* C11 witness: score was evaluated for two endpoints of different regions that
\* agree on every field it reads.
C11_Witness ==
    /\ StatsDone
    /\ \E i, j \in Ids :
          /\ proxies[i].state # proxies[j].state
          /\ SameInputs(proxies[i], proxies[j])

\* The tags that have a preference table.
TabledBlockers == {"iboss", "goguardian", "securely", "lanschool"}

\* providerScore as the claim gives it, in tenths
ClaimedProviderScore(isp, blocker_type) ==
    IF blocker_type \notin TabledBlockers THEN 5
    ELSE IF isp \in PreferredIsps(blocker_type) THEN 10
    ELSE IF isp \in AvoidIsps(blocker_type) THEN 0
    ELSE 5

\* C12: providerScore is 1.0 for a provider of the tag's preferred set, 0.0 for one
\* of its avoided set and 0.5 otherwise; 0.5 always without a tag and for a tag
\* without a table.  Stated for every endpoint of the pool and, in the initial
\* states, for every provider name of the source.
C12_ProviderScore ==
    /\ \A i \in Ids : \A blocker_type \in OptBlockerTypes :
          CalculateBlockerScore(proxies[i], blocker_type)
             = ClaimedProviderScore(proxies[i].isp, blocker_type)
    /\ (mon_pc = "off" /\ now = 0) =>
          \A isp \in Isps : \A blocker_type \in OptBlockerTypes :
             /\ CalculateBlockerScore([isp |-> isp], blocker_type)
                   = ClaimedProviderScore(isp, blocker_type)
             /\ CalculateBlockerScore([isp |-> isp], blocker_type) \in {0, 5, 10}
             /\ blocker_type \in {NoneStr, "barkly"} =>
                   CalculateBlockerScore([isp |-> isp], blocker_type) = 5

\* C12 witness: scores were computed under a tag for which the pool holds a
\* preferred, an avoided and an indifferent provider.
C12_Witness ==
    /\ StatsDone
    /\ \E i, j, k \in Ids :
          /\ CalculateBlockerScore(proxies[i], last.blocker_type) = 10
          /\ CalculateBlockerScore(proxies[j], last.blocker_type) = 0
          /\ CalculateBlockerScore(proxies[k], last.blocker_type) = 5

\* ------------------------------------------------------------- claims: probe updates
\* C13: in every state reachable by probe updates and calls, every endpoint's
\* success_rate is in [0, 1].
C13_SuccessRateInUnit ==
    \A i \in Ids : proxies[i].success_rate >= 0 /\ proxies[i].success_rate <= RateScale

\* C13 witness: after probe cycles and a selection, one endpoint's success_rate has
\* fallen below 0.5 and another's has risen above 0.95.
C13_Witness ==
    /\ SelectDone
    /\ \E i \in Ids : 2 * proxies[i].success_rate < RateScale
    /\ \E j \in Ids : 100 * proxies[j].success_rate > 95 * RateScale

\* the step is the probe update of endpoint i
ProbeUpdateOf(i) == tasks[i] = "pending" /\ tasks'[i] # "pending"

\* new = 0.7 * old + 0.3 * raw, for values in the same unit; raw = num / den
BlendOf(old, num, den, new) == 10 * den * new = 7 * den * old + 3 * num

\* The example of the claim: prior 0.5 / 200 ms, probes of 50 ms, 100 ms and a
\* failure give 0.55 and 162.5 ms.
C14_Example ==
    LET p == Probed([latency |-> 200 * LatScale, success_rate |-> RateScale \div 2,
                     health |-> DEGRADED],
                    <<Ok(50), Ok(100), Failed>>)
    IN /\ 100 * p.success_rate = 55 * RateScale
       /\ 10 * p.latency = 1625 * LatScale

\* C14: a probe update sets success_rate' = 0.7 * success_rate + 0.3 * successes /
\* attempted and, when a probe succeeded, latency_ms' = 0.7 * latency_ms + 0.3 *
\* (the mean latency of the successful probes); the claim's example holds.
C14_ProbeUpdate ==
    /\ [](mon_pc = "off" => C14_Example)
    /\ [][\A i \in Ids :
            ProbeUpdateOf(i) =>
               \E b \in Batteries :
                  /\ BlendOf(proxies[i].success_rate, SuccessCount(b) * RateScale, Len(b),
                             proxies'[i].success_rate)
                  /\ SuccessCount(b) >= 1 =>
                        IF IsInf(proxies[i].latency)
                        THEN IsInf(proxies'[i].latency)
                        ELSE /\ ~IsInf(proxies'[i].latency)
                             /\ BlendOf(proxies[i].latency, TotalLatency(b) * LatScale,
                                        SuccessCount(b), proxies'[i].latency)]_vars

\* C14 witness: an endpoint has been updated in this cycle from a battery in which
\* some probes succeeded and most failed.
C14_Witness ==
    /\ mon_pc = "gathering"
    /\ \E i \in Ids : tasks[i] = "false" /\ ~IsInf(proxies[i].latency)

\* classify of the claim, on a success_rate and a latency: thresholds in order
ClaimedClassify(success_rate, latency) ==
    IF 10 * success_rate >= 9 * RateScale /\ ~IsInf(latency) /\ latency < 300 * LatScale
    THEN EXCELLENT
    ELSE IF 10 * success_rate >= 7 * RateScale /\ ~IsInf(latency) /\ latency < 600 * LatScale
    THEN GOOD
    ELSE IF 10 * success_rate >= 5 * RateScale THEN DEGRADED
    ELSE POOR

\* C15 as stated: after a probe update the endpoint's health is the classification
\* of its updated (smoothed) success_rate and its updated latency.
C15_Original ==
    [][\A i \in Ids :
          ProbeUpdateOf(i) =>
             proxies'[i].health
                = ClaimedClassify(proxies'[i].success_rate, proxies'[i].latency)]_vars

\* C16 as stated: every endpoint's latency is finite in every reachable state.
C16_Original ==
    \A i \in Ids : ~IsInf(proxies[i].latency)

\* the step is a probe update of endpoint i from a battery of raw success rate 1.0
AllSucceededUpdateOf(i) ==
    /\ ProbeUpdateOf(i)
    /\ BlendOf(proxies[i].success_rate, RateScale, 1, proxies'[i].success_rate)

\* | latency - ms |, for a finite latency
DistanceTo(latency, ms) ==
    IF latency >= ms * LatScale THEN latency - ms * LatScale ELSE ms * LatScale - latency

\* C17 as stated, for one step: a probe update with rawSuccessRate 1.0 and a constant
\* rawLatency (60 ms in the batteries tried) moves success_rate toward 1.0 and
\* latency toward the rawLatency, each distance shrinking by the factor 0.7.
C17_Original ==
    [][\A i \in Ids :
          AllSucceededUpdateOf(i) =>
             /\ 10 * (RateScale - proxies'[i].success_rate)
                   = 7 * (RateScale - proxies[i].success_rate)
             /\ ~IsInf(proxies'[i].latency)
             /\ ~IsInf(proxies[i].latency)
             /\ 10 * DistanceTo(proxies'[i].latency, 60)
                   = 7 * DistanceTo(proxies[i].latency, 60)]_vars

\* C18: a probe update sets health to one of POOR, DEGRADED, GOOD, EXCELLENT, never
\* to DEAD; no step takes an endpoint whose health is above DEAD to DEAD.
C18_NeverDead ==
    [][\A i \in Ids :
          /\ ProbeUpdateOf(i) => proxies'[i].health \in {POOR, DEGRADED, GOOD, EXCELLENT}
          /\ proxies[i].health > DEAD => proxies'[i].health > DEAD]_vars

\* C18 witness: a probe update has put an endpoint on the lowest rung its ladder
\* has, POOR.
C18_Witness ==
    /\ mon_pc = "gathering"
    /\ \E i \in Ids : tasks[i] = "false" /\ proxies[i].health = POOR

\* ------------------------------------------------------------- claims: cycles
\* C19: a failed probe counts against its own endpoint only and never aborts the
\* cycle.  A probe update changes the endpoint it belongs to and no other, and
\* drops no task; every endpoint sampled receives its update whatever the probes
\* of the others do; the cycle completes, and reports as its healthy count the
\* number of tasks that returned True.
C19_FailureStaysLocal ==
    /\ [][\A i \in Ids :
            /\ ProbeUpdateOf(i) =>
                  /\ tasks'[i] \in {"true", "false"}
                  /\ \A j \in Ids \ {i} : proxies'[j] = proxies[j] /\ tasks'[j] = tasks[j]
            /\ tasks[i] = "pending" => tasks'[i] \in {"pending", "true", "false"}]_vars
    /\ [][(mon_pc = "gathering" /\ mon_pc' = "waiting") =>
            /\ \A i \in Ids : tasks[i] # "pending"
            /\ healthy_count' = Cardinality({i \in Ids : tasks[i] = "true"})]_vars
    /\ \A i \in Ids : (tasks[i] = "pending") ~> (tasks[i] \in {"true", "false"})
    /\ (mon_pc = "gathering") ~> (mon_pc = "waiting")

\* C19 witness: a cycle has completed in which every probe of one endpoint failed
\* and another endpoint was updated from successful probes and counted healthy.
C19_Witness ==
    /\ mon_pc = "waiting"
    /\ cycles = 1
    /\ healthy_count = 1
    /\ \E i, j \in Ids :
          /\ IsInf(proxies[i].latency)
          /\ proxies[j].state = proxies[i].state
          /\ proxies[j].health = EXCELLENT
          /\ \A p \in Range(InitProfiles) : proxies[j].success_rate * 1000 # p.success_rate * RateScale

\* the metrics a probe update writes
Metrics(p) == <<p.latency, p.success_rate, p.health>>

\* q holds all the post-update metrics of p for some battery
WholeUpdate(p, q) ==
    \E b \in Batteries :
       /\ q.latency = Smooth(p.latency, AvgLatency(b))
       /\ q.success_rate = Smooth(p.success_rate, RawSuccessRate(b))
       /\ q.health = HealthStatus(RawSuccessRate(b), q.latency)

\* C20: between any two steps, and so in whatever state a selection runs, every
\* endpoint holds either all of its pre-update metrics or all of its post-update
\* metrics: each step leaves an endpoint's metrics alone or replaces them by a whole
\* update, and no update happens inside a selection.
C20_NoTornUpdate ==
    /\ [][\A i \in Ids :
            \/ Metrics(proxies'[i]) = Metrics(proxies[i])
            \/ ProbeUpdateOf(i) /\ WholeUpdate(proxies[i], proxies'[i])]_vars
    /\ [][last'.op \in SelectOps =>
            \A i \in Ids : Metrics(proxies'[i]) = Metrics(proxies[i]) /\ tasks'[i] = tasks[i]]_vars

\* C20 witness: a selection returned in the middle of a cycle, between the update of
\* one endpoint and the update of another that is still to come.
C20_Witness ==
    /\ SelectReturned
    /\ mon_pc = "gathering"
    /\ \E i, j \in Ids : tasks[i] \in {"true", "false"} /\ tasks[j] = "pending"

\* ------------------------------------------------------------- claims: registry
\* the positions of endpoint i in the bucket of state s, and in the flat pool
BucketPositions(s, i) == {n \in DOMAIN proxies_by_state[s] : proxies_by_state[s][n] = i}
PoolPositions(i) == {n \in DOMAIN proxy_pool : proxy_pool[n] = i}

\* C21: every endpoint appears in exactly one region bucket, that of its own state
\* field, and exactly once in the flat pool; the flat pool is the union of the
\* buckets; every bucket keeps its initial, non-zero size.
C21_RegistryShape ==
    /\ DOMAIN proxies_by_state = States
    /\ \A i \in Ids :
          /\ Cardinality(BucketPositions(proxies[i].state, i)) = 1
          /\ \A s \in States \ {proxies[i].state} : BucketPositions(s, i) = {}
          /\ Cardinality(PoolPositions(i)) = 1
    /\ Range(proxy_pool) = UNION {Range(proxies_by_state[s]) : s \in States}
    /\ Len(proxy_pool) = NumStates * PerState
    /\ \A s \in States : Len(proxies_by_state[s]) = PerState /\ PerState > 0

\* C21 witness: the registry after two probe cycles and a chain build.
C21_Witness ==
    /\ ChainReturned
    /\ cycles = MaxCycles
    /\ mon_pc = "waiting"
    /\ \E i \in Ids : proxies[i].last_used = now

\* ------------------------------------------------------------- claims: statistics
\* the endpoints of the bucket of state s
BucketOf(s) == Range(proxies_by_state[s])

RECURSIVE ScoreSumOver(_, _)
\* the sum of the scores of a set of endpoints under a tag, in units of 1/ScoreDen
ScoreSumOver(ids, blocker_type) ==
    IF ids = {} THEN 0
    ELSE LET i == CHOOSE j \in ids : TRUE
         IN Score(proxies[i], blocker_type) + ScoreSumOver(ids \ {i}, blocker_type)

\* recommendation of the claim for a mean given as sum / count
ClaimedRecommendation(sum, count) ==
    IF sum > 8 * (ScoreDen \div 10) * count THEN "EXCELLENT"
    ELSE IF sum > 6 * (ScoreDen \div 10) * count THEN "GOOD"
    ELSE "AVOID"

\* C22: get_blocker_performance_stats returns, for every region, the size of its
\* bucket, the number of its endpoints with health >= DEGRADED, the mean of the
\* scores of its endpoints under the tag and the recommendation that mean gives;
\* it changes no endpoint and no registry structure.
C22_StatsForPolicy ==
    /\ [](StatsDone =>
            /\ DOMAIN last.stats = States
            /\ \A s \in States :
                  /\ last.stats[s].proxy_count = Cardinality(BucketOf(s))
                  /\ last.stats[s].healthy_proxies
                        = Cardinality({i \in BucketOf(s) : Healthy(i)})
                  /\ last.stats[s].avg_blocker_score
                        = ScoreSumOver(BucketOf(s), last.blocker_type)
                  /\ last.stats[s].recommendation
                        = ClaimedRecommendation(ScoreSumOver(BucketOf(s), last.blocker_type),
                                                Cardinality(BucketOf(s))))
    /\ [][last'.op = "get_blocker_performance_stats" =>
            /\ proxies' = proxies
            /\ proxies_by_state' = proxies_by_state
            /\ proxy_pool' = proxy_pool]_vars

\* C22 witness: statistics in which one region is to be avoided, another is not,
\* and some region has fewer healthy endpoints than endpoints.
C22_Witness ==
    /\ StatsDone
    /\ \E s, t \in States :
          /\ last.stats[s].recommendation = "AVOID"
          /\ last.stats[t].recommendation # "AVOID"
    /\ \E s \in States :
          /\ last.stats[s].healthy_proxies > 0
          /\ last.stats[s].healthy_proxies < last.stats[s].proxy_count

\* ------------------------------------------------------------- claims: cycles, order
\* endpoint i has been updated by the cycle in progress
UpdatedThisCycle(i) == mon_pc = "gathering" /\ tasks[i] \in {"true", "false"}
\* the probes of endpoint i are still in flight
ProbesInFlight(i) == mon_pc = "gathering" /\ tasks[i] = "pending"

\* C23 as stated: no endpoint's metrics are written while probes of another sampled
\* endpoint are in flight, and a selection never runs in a state where some sampled
\* endpoints are updated by the cycle and probes of others are in flight.
C23_Original ==
    /\ [][\A i \in Ids :
            ProbeUpdateOf(i) => \A j \in Ids \ {i} : ~ProbesInFlight(j)]_vars
    /\ [][last'.op \in SelectOps =>
            ~(\E i, j \in Ids : UpdatedThisCycle(i) /\ ProbesInFlight(j))]_vars

\* the pool after the probe update of endpoint i from battery b
PoolAfterUpdate(px, i, b) == [px EXCEPT ![i] = Probed(px[i], b)]

\* C24: probe updates of different endpoints are independent.  An update of one
\* endpoint leaves every field of every other endpoint unchanged and is a function
\* of that endpoint's own metrics and battery; for two endpoints whose tasks run in
\* the same cycle, the two orders of their updates give the same pool.
C24_UpdatesIndependent ==
    /\ [][\A i \in Ids :
            ProbeUpdateOf(i) =>
               /\ \A j \in Ids \ {i} : proxies'[j] = proxies[j]
               /\ WholeUpdate(proxies[i], proxies'[i])
               /\ proxies'[i].state = proxies[i].state
               /\ proxies'[i].isp = proxies[i].isp
               /\ proxies'[i].last_used = proxies[i].last_used]_vars
    /\ [](\A i, j \in Ids :
            (i # j /\ ProbesInFlight(i) /\ ProbesInFlight(j)) =>
               \A bi, bj \in Batteries :
                  PoolAfterUpdate(PoolAfterUpdate(proxies, i, bi), j, bj)
                     = PoolAfterUpdate(PoolAfterUpdate(proxies, j, bj), i, bi))

\* C24 witness: two endpoints have been updated in the same cycle, one from a
\* battery that failed and one from a battery that succeeded.
C24_Witness ==
    /\ mon_pc = "gathering"
    /\ \E i, j \in Ids :
          /\ tasks[i] = "true" /\ tasks[j] = "false"
          /\ proxies[i].state = proxies[j].state

\* the regions whose endpoints have a task in the cycle in progress
SampledRegions(tk) == {proxies[i].state : i \in {j \in Ids : tk[j] # "none"}}

\* a step of the health monitor
MonitorStep == mon_pc' # mon_pc \/ tasks' # tasks \/ cycles' # cycles

\* the endpoint has been through a probe update since construction
UpdatedSinceInit(i) ==
    \A p \in Range(InitProfiles) : proxies[i].success_rate * 1000 # p.success_rate * RateScale

\* C25: a cycle samples exactly min(regions per cycle, number of regions) distinct
\* regions and starts a task for every endpoint of a sampled region and for no
\* other; each of these endpoints gets exactly one probe update before the cycle
\* ends; the metrics of an endpoint change in a probe update of its own task and in
\* no other step, so the endpoints of the unsampled regions keep theirs; no step of
\* the monitor changes any last_used.
C25_CycleFrame ==
    /\ [][(mon_pc = "waiting" /\ mon_pc' = "gathering") =>
            /\ Cardinality(SampledRegions(tasks')) =
                  Min(RegionsPerCycle, Cardinality(DOMAIN proxies_by_state))
            /\ SampledRegions(tasks') \subseteq DOMAIN proxies_by_state
            /\ \A i \in Ids :
                  tasks'[i] = (IF proxies[i].state \in SampledRegions(tasks')
                               THEN "pending" ELSE "none")]_vars
    /\ [][\A i \in Ids :
            /\ Metrics(proxies'[i]) # Metrics(proxies[i]) => ProbeUpdateOf(i)
            /\ (mon_pc = "gathering" /\ tasks[i] = "none") =>
                  Metrics(proxies'[i]) = Metrics(proxies[i])
            /\ UpdatedThisCycle(i) =>
                  /\ Metrics(proxies'[i]) = Metrics(proxies[i])
                  /\ tasks'[i] = tasks[i] \/ mon_pc' = "waiting"
            /\ (mon_pc = "gathering" /\ mon_pc' = "waiting") => tasks[i] # "pending"]_vars
    /\ [][MonitorStep => \A i \in Ids : proxies'[i].last_used = proxies[i].last_used]_vars

\* C25 witness: the first cycle is over; every endpoint of one region has been
\* updated and no endpoint of another region has.
C25_Witness ==
    /\ mon_pc = "waiting"
    /\ cycles = 1
    /\ \E s, t \in DOMAIN proxies_by_state :
          /\ s # t
          /\ \A i \in Ids : proxies[i].state = s => UpdatedSinceInit(i)
          /\ \A i \in Ids : proxies[i].state = t => ~UpdatedSinceInit(i)

\* the monitor loop has been started
MonitorStarted == mon_pc \in {"waiting", "gathering"}

\* C26: once started the monitor never leaves its loop, whatever is raised inside a
\* cycle; a cycle in progress ends; a cycle starts only from the wait between
\* cycles, with no task of an earlier cycle left, so at most one is in progress;
\* and every cycle, finished or failed, is followed through the wait by the next
\* one (up to the number of cycles explored).
C26_MonitorKeepsRunning ==
    /\ [][MonitorStarted => MonitorStarted']_vars
    /\ (mon_pc = "gathering") ~> (mon_pc = "waiting")
    /\ [](mon_pc # "gathering" => \A i \in Ids : tasks[i] = "none")
    /\ [][cycles' # cycles =>
            /\ cycles' = cycles + 1
            /\ mon_pc = "waiting"
            /\ \A i \in Ids : tasks[i] = "none"]_vars
    /\ [][(mon_pc = "gathering" /\ mon_pc' # "gathering") =>
            mon_pc' = "waiting" /\ cycles' = cycles]_vars
    /\ \A n \in 0..(MaxCycles - 1) : (MonitorStarted /\ cycles = n) ~> (cycles = n + 1)

\* C26 witness: the first cycle updated both endpoints of a region from successful
\* batteries and then failed before reporting (no healthy count was recorded), and
\* after the wait the second cycle is in progress on another region.
C26_Witness ==
    /\ mon_pc = "gathering"
    /\ cycles = 2
    /\ healthy_count = 0
    /\ \E s, t \in DOMAIN proxies_by_state :
          /\ s # t
          /\ \A i \in Ids : proxies[i].state = s =>
                /\ tasks[i] = "none"
                /\ \A p \in Range(InitProfiles) :
                      proxies[i].success_rate * 1000 > p.success_rate * RateScale
          /\ \A i \in Ids : proxies[i].state = t => tasks[i] = "pending"

\* ------------------------------------------------------------- claims: determinism
\* registries that agree with the pool on latency, success_rate, health, isp, state
\* and order and differ in last_used: no endpoint used yet, or one just used
SameButLastUsed ==
    { [i \in Ids |-> [proxies[i] EXCEPT !.last_used =
                         IF i = used THEN MaxCalls + 1 ELSE 0 - 1]] :
         used \in Ids \cup {0} }

\* C27: selectBest is deterministic.  The same call (region hint, policy tag,
\* ceiling) made later on a registry whose endpoints have the same latency,
\* success_rate, health, provider and order fails when this call fails and
\* otherwise returns the endpoint at the same position, ties in score included.
C27_SelectionDeterministic ==
    [][last'.op \in SelectOps =>
         \A other \in SameButLastUsed :
            LET r == GetOptimalProxy(other, last'.target_state, last'.blocker_type,
                                     last'.target_latency, now' + 1)
            IN /\ r.ok = (last'.outcome = "ok")
               /\ r.ok => r.best = last'.result]_vars

\* C27 witness: a selection returned one of several endpoints of equal, maximal
\* score, which differ in last_used.
C27_Witness ==
    /\ SelectReturned
    /\ Cardinality(TopScored) >= 2
    /\ \E i, j \in TopScored : proxies[i].last_used # proxies[j].last_used

\* ------------------------------------------------------------- claims: chain hops
\* the hops of the last chain
Hops == 1..Len(last.chain)

\* C28 as stated: in a chain built for a policy tag, a hop whose target region
\* holds an endpoint with health >= DEGRADED and latency within the tag's ceiling
\* has latency within that ceiling.
C28_Original ==
    (ChainDone /\ last.blocker_type \in BlockerTypes) =>
        \A h \in Hops :
           (\E i \in Bucket(last.targets[h]) :
               Healthy(i) /\ Within(i, ClaimedCeiling(last.blocker_type)))
              => Within(last.chain[h], ClaimedCeiling(last.blocker_type))

\* C29 as stated: when a chain is built from given candidate regions, each holding
\* an endpoint with health >= DEGRADED, with no more hops than regions, every hop
\* is an endpoint of a given region and the region recorded as used for a hop is
\* the region of the endpoint placed in the chain.
C29_Original ==
    ( /\ ChainReturned
      /\ last.states # <<>>
      /\ last.chain_length <= Cardinality(ChainRegions)
      /\ \A s \in ChainRegions : NamesRegion(s) /\ \E i \in Bucket(s) : Healthy(i) )
        => \A h \in Hops :
              /\ proxies[last.chain[h]].state \in {Lower(s) : s \in ChainRegions}
              /\ proxies[last.chain[h]].state = Lower(last.targets[h])

\* ------------------------------------------------------------- claims: cycle report
\* the endpoints of the cycle in progress: those probed, and those updated
ProbedInCycle == {i \in Ids : tasks[i] # "none"}
UpdatedInCycle == {i \in Ids : tasks[i] \in {"true", "false"}}

\* C30: a task returns True exactly when the update it has just made leaves its
\* endpoint at health >= DEGRADED; the healthy count a cycle reports is the number
\* of endpoints it updated that stand at health >= DEGRADED, which leaves out an
\* endpoint whose task raised, and is at most the number of endpoints probed.
C30_HealthyCount ==
    /\ [][\A i \in Ids :
            (tasks[i] = "pending" /\ tasks'[i] \in {"true", "false"}) =>
               (tasks'[i] = "true" <=> proxies'[i].health >= DEGRADED)]_vars
    /\ [][EndCycle =>
            /\ healthy_count' = Cardinality({i \in UpdatedInCycle : Healthy(i)})
            /\ healthy_count' <= Cardinality(ProbedInCycle)]_vars
    /\ [](healthy_count <= NumStates * PerState)

\* C30 witness: the first cycle has reported one healthy endpoint for a region of
\* which one endpoint was updated to health >= DEGRADED and another, still at its
\* initial health >= DEGRADED, was not updated because its task raised.
C30_Witness ==
    /\ mon_pc = "waiting"
    /\ cycles = 1
    /\ healthy_count = 1
    /\ \E i, j \in Ids :
          /\ proxies[i].state = proxies[j].state
          /\ UpdatedSinceInit(i) /\ Healthy(i)
          /\ ~UpdatedSinceInit(j) /\ Healthy(j)

\* ------------------------------------------------------------- claims: stop
\* the monitor has been stopped
MonitorStopped == mon_pc = "cancelled"

\* C31 as stated: the monitor stops gracefully.  A probe in flight is never cut
\* off, whether or not a stop is requested: it stays in flight or ends in its
\* update; and once the monitor is stopped no further cycle starts.
C31_Original ==
    /\ [][\A i \in Ids :
            ProbesInFlight(i) => tasks'[i] \in {"pending", "true", "false"}]_vars
    /\ [](MonitorStopped => \A i \in Ids : tasks[i] # "cancelled")
    /\ [][MonitorStopped => (MonitorStopped' /\ cycles' = cycles)]_vars

====
